---------------------------- MODULE Spec2Model ----------------------------
(***************************************************************************)
(* A model of noaa_clock.cpp: the location resolver (setcoord, setdst_eu), *)
(* the NOAA solar equations (noaa_eq), the per-minute tables (load) and    *)
(* the timer slot that rebuilds and samples them (DispWidget::eloop).      *)
(*                                                                         *)
(* Numbers.  A C double is modelled by an integer count of 1/65536 units   *)
(* (degrees, minutes, hours, radians or pure numbers); every such count    *)
(* below 2^53 is a value a double holds exactly.  Products and quotients    *)
(* are rounded down to that grid.  A C float is modelled by the same       *)
(* counts restricted to those a 24-bit significand holds; ToFloat is the   *)
(* IEEE round-to-nearest-even conversion of the double to that set.        *)
(* wtime_day is held as its numerator over 1440 (every value the program   *)
(* assigns to it is k/1440.0).  NaN is a distinguished value.              *)
(***************************************************************************)
EXTENDS Integers, Sequences, FiniteSets, TLC

\* ------------------------------------------------------------ arithmetic

\* One unit of the fixed-point grid: the value 1.0.
Q == 65536

\* The not-a-number of IEEE arithmetic (acos of an argument outside [-1,1]).
NaN == -2147483647

Abs(a) == IF a < 0 THEN 0 - a ELSE a

\* <<q, r>> with a * b = q * c + r and 0 <= r < c, for b >= 0 and 0 < c < 2^27,
\* computed without an intermediate beyond 32 bits (long multiplication over
\* the hexadecimal digits of b).
RECURSIVE MulDivQR(_, _, _)
MulDivQR(a, b, c) ==
  IF b = 0 THEN <<0, 0>>
  ELSE LET h  == MulDivQR(a, b \div 16, c)
           t1 == 16 * h[2]
           t2 == (a % c) * (b % 16)
           s  == (t1 % c) + (t2 % c)
       IN <<16 * h[1] + (t1 \div c) + (a \div c) * (b % 16) + (t2 \div c) + (s \div c),
            s % c>>

\* floor (a * b / c)
MulDiv(a, b, c) == MulDivQR(a, b, c)[1]

\* <<floor (a * b / c) mod m, (a * b) mod c>>: as MulDivQR with the quotient
\* kept modulo m, for quotients beyond 32 bits (m < 2^26).
RECURSIVE MulDivModQR(_, _, _, _)
MulDivModQR(a, b, c, m) ==
  IF b = 0 THEN <<0, 0>>
  ELSE LET h  == MulDivModQR(a, b \div 16, c, m)
           t1 == 16 * h[2]
           t2 == (a % c) * (b % 16)
           s  == (t1 % c) + (t2 % c)
       IN <<(16 * h[1] + (t1 \div c) + ((a \div c) % m) * (b % 16) + (t2 \div c) + (s \div c)) % m,
            s % c>>

\* The decimal literal n/d of the source, on the grid.
Dec(n, d) == MulDiv(n, Q, d)

\* The product a * b of two grid values: floor (a * b / Q).
Mul(a, b) ==
  LET ah == a \div Q
      al == a % Q
      bh == b \div Q
      bl == b % Q
  IN ah * bh * Q + ah * bl + al * bh
     + (((al \div 256) * bl + ((al % 256) * bl) \div 256) \div 256)

\* The quotient a / b of two grid values: floor (a * Q / b), b # 0.
DivPos(a, b) ==
  IF b >= 8388608 THEN
    LET bs == b \div 256
        as == a \div 256
        q1 == as \div bs
        r1 == as % bs
        q2 == (r1 * 256) \div bs
        r2 == (r1 * 256) % bs
    IN q1 * Q + q2 * 256 + (r2 * 256) \div bs
  ELSE
    LET q1 == a \div b
        r1 == a % b
        q2 == (r1 * 256) \div b
        r2 == (r1 * 256) % b
    IN q1 * Q + q2 * 256 + (r2 * 256) \div b

Div(a, b) == IF b > 0 THEN DivPos(a, b) ELSE DivPos(0 - a, 0 - b)

\* C's fmod: the remainder has the sign of the dividend x.
fmod(x, y) == IF x >= 0 THEN x % y ELSE 0 - ((0 - x) % y)

\* The conversion double -> float of an assignment to a float object:
\* round to the nearest value with a 24-bit significand, ties to even.
FloatUlp(k) ==
  LET a == Abs(k)
  IN IF a < 16777216 THEN 1
     ELSE IF a < 33554432 THEN 2
     ELSE IF a < 67108864 THEN 4
     ELSE IF a < 134217728 THEN 8
     ELSE IF a < 268435456 THEN 16
     ELSE IF a < 536870912 THEN 32
     ELSE 64

ToFloat(k) ==
  IF k = NaN THEN NaN
  ELSE LET u == FloatUlp(k)
           q == k \div u
           r == k % u
       IN IF 2 * r < u THEN q * u
          ELSE IF 2 * r > u THEN (q + 1) * u
          ELSE IF q % 2 = 0 THEN q * u ELSE (q + 1) * u

\* ---------------------------------------------------------- trigonometry

\* dpi = 2.0 * 3.1415926535897932 (line 76) and its half and quarter.
dpi == 411775
Pi == 205887
HalfPi == 102944

d2r(d) == Mul(dpi, d) \div 360

r2d(r) == Div(360 * r, dpi)

\* sin of an angle in [-pi/2, pi/2]: the Taylor series to x^9.
SinSeries(x) ==
  LET x2 == Mul(x, x)
      t4 == Q - x2 \div 72
      t3 == Q - Mul(x2, t4) \div 42
      t2 == Q - Mul(x2, t3) \div 20
      t1 == Q - Mul(x2, t2) \div 6
  IN Mul(x, t1)

sin(r) ==
  LET t == r % dpi
  IN IF t <= HalfPi THEN SinSeries(t)
     ELSE IF t <= Pi + HalfPi THEN SinSeries(Pi - t)
     ELSE SinSeries(t - dpi)

cos(r) == sin(r + HalfPi)

tan(r) == Div(sin(r), cos(r))

\* 1 / tan (r), for sin (r) # 0.
cot(r) == Div(cos(r), sin(r))

\* acos: the angle in [0, pi] whose cosine is x, by bisection (cos falls
\* from 1 to -1 there); NaN for an argument outside [-1, 1].
RECURSIVE ACosSearch(_, _, _)
ACosSearch(x, lo, hi) ==
  IF hi - lo <= 1 THEN (IF cos(hi) >= x THEN hi ELSE lo)
  ELSE LET mid == (lo + hi) \div 2
       IN IF cos(mid) >= x THEN ACosSearch(x, mid, hi) ELSE ACosSearch(x, lo, mid)

acos(x) ==
  IF x = NaN \/ x > Q \/ x < 0 - Q THEN NaN
  ELSE IF x = Q THEN 0
  ELSE IF x = 0 - Q THEN Pi
  ELSE ACosSearch(x, 0, Pi)

\* asin: the angle in [-pi/2, pi/2] whose sine is x, by bisection.
RECURSIVE ASinSearch(_, _, _)
ASinSearch(x, lo, hi) ==
  IF hi - lo <= 1 THEN (IF sin(hi) <= x THEN hi ELSE lo)
  ELSE LET mid == (lo + hi) \div 2
       IN IF sin(mid) <= x THEN ASinSearch(x, mid, hi) ELSE ASinSearch(x, lo, mid)

asin(x) ==
  IF x = NaN \/ x > Q \/ x < 0 - Q THEN NaN
  ELSE ASinSearch(x, 0 - HalfPi, HalfPi)

\* ------------------------------------------------------ NOAA equations

\* Minutes in a Julian century: 36525 days (line 431) of 1440 minutes.
MinPerCentury == 52596000

\* The literals of noaa_eq (lines 430-474), on the grid.
K_gmlong0 == Dec(28046646, 100000)
K_gmlong2 == Dec(3032, 10000000)
K_gmanom0 == Dec(35752911, 100000)
K_gmanom2 == Dec(1537, 10000000)
K_ecc0 == Dec(16708634, 100000000) \div 10
K_ecc1 == Dec(42037, 100000000) \div 10
K_ecc2 == Dec(1267, 100000000) \div 100
K_ctr1 == Dec(1914602, 1000000)
K_ctr1a == Dec(4817, 1000000)
K_ctr1b == Dec(14, 1000000)
K_ctr2 == Dec(19993, 1000000)
K_ctr2a == Dec(101, 1000000)
K_ctr3 == Dec(289, 1000000)
K_app0 == Dec(569, 100000)
K_app1 == Dec(478, 100000)
K_omega0 == Dec(12504, 100)
K_moe0 == Dec(21448, 1000)
K_moe1 == Dec(46815, 1000)
K_moe2 == Dec(59, 100000)
K_moe3 == Dec(1813, 1000000)
K_oc1 == Dec(256, 100000)
K_ref1 == Dec(581, 10)
K_ref3 == Dec(7, 100)
K_pol0 == 1735 * Q
K_pol1 == Dec(5182, 10)
K_pol2 == Dec(1034, 10)
K_pol3 == Dec(1279, 100)
K_pol4 == Dec(711, 1000)
K_low == Dec(20772, 1000)
K_e575 == Dec(575, 1000)

\* The fractional parts of the three large rates, in 1/131072 of the
\* reduced fraction Q / MinPerCentury = 2048 / 1643625.
F_gmlong1 == MulDiv(76983, 131072, 100000)
F_gmanom1 == MulDiv(5029, 131072, 100000)
F_omega1 == MulDiv(136, 131072, 1000)

\* (jday - 2451545) in minutes, line 430-431: jday = date_d + 2415018.5 +
\* wtime_day - timezone_hr / 24, and 2415018.5 - 2451545 = -36526.5 days.
JMinutes(date, wt, tz) == (date - 36526) * 1440 - 720 + wt - ((60 * tz) \div Q)

\* jcen = (jday - 2451545) / 36525, on the grid.
JCen(m) == MulDiv(m, Q, MinPerCentury)

\* jcen * (whole + frac), modulo 360 degrees, to the grid: the products of
\* jcen with the rates 36000.76983, 35999.05029 and 1934.136 exceed 32 bits
\* unreduced; they are only used modulo a full turn.
JTimes(m, whole, frac) ==
  (MulDivModQR(m, whole * 2048, 1643625, 360 * Q)[1]
     + MulDiv(m, frac, 105192000)) % (360 * Q)

\* line 432: fmod (280.46646 + jcen * (36000.76983 + jcen * 0.0003032), 360.0).
\* The remainder takes the sign of the dividend, which is read off the
\* dividend in whole degrees.
GmLong(m) ==
  LET jc  == JCen(m)
      y   == (K_gmlong0 + JTimes(m, 36000, F_gmlong1) + Mul(Mul(jc, jc), K_gmlong2)) % (360 * Q)
      neg == 280 + MulDiv(m, 36001, MinPerCentury) < 0
  IN IF neg /\ y # 0 THEN y - 360 * Q ELSE y

\* line 433, held modulo 360 (gmanom_deg is only ever an argument of sin).
GmAnom(m) ==
  LET jc == JCen(m)
  IN (K_gmanom0 + JTimes(m, 35999, F_gmanom1) - Mul(Mul(jc, jc), K_gmanom2)) % (360 * Q)

\* 125.04 - 1934.136 * jcen (lines 441, 443), modulo 360.
Omega(m) == (K_omega0 - JTimes(m, 1934, F_omega1)) % (360 * Q)

\* line 434
Eccent(jc) == K_ecc0 - Mul(jc, K_ecc1 + Mul(K_ecc2, jc))

\* lines 435-437
EqOfCtr(jc, gmanom) ==
    Mul(sin(d2r(gmanom)), K_ctr1 - Mul(jc, K_ctr1a + Mul(K_ctr1b, jc)))
  + Mul(sin(d2r(2 * gmanom)), K_ctr2 - Mul(K_ctr2a, jc))
  + Mul(sin(d2r(3 * gmanom)), K_ctr3)

\* line 442
Moe(jc) ==
  23 * Q + (26 * Q + (K_moe0 - Mul(jc, K_moe1 + Mul(jc, K_moe2 - Mul(jc, K_moe3)))) \div 60) \div 60

\* lines 446-451
EqOfTime(gmlong, gmanom, eccent, ocorr) ==
  LET t     == tan(d2r(ocorr \div 2))
      var_y == Mul(t, t)
      sg    == sin(d2r(gmanom))
  IN 4 * r2d(Mul(var_y, sin(2 * d2r(gmlong)))
             - 2 * Mul(eccent, sg)
             + 4 * Mul(Mul(Mul(eccent, var_y), sg), cos(2 * d2r(gmlong)))
             - Mul(Mul(var_y, var_y), sin(4 * d2r(gmlong))) \div 2
             - (5 * Mul(Mul(eccent, eccent), sin(2 * d2r(gmanom)))) \div 4)

\* line 457: fmod ((wtime_day * 1440 + eqoftime_min + 4 * long_deg - 60 * timezone_hr), 1440.0)
SolTime(wt, eqoftime, lon, tz) == fmod(wt * Q + eqoftime + 4 * lon - 60 * tz, 1440 * Q)

\* A faulty variant of the fold below: the branch of the negative solar
\* times forgotten.
HrAngleUnfolded(soltime) == soltime \div 4 - 180 * Q

\* line 458
HrAngle(soltime) ==
  IF soltime \div 4 < 0 THEN soltime \div 4 + 180 * Q ELSE soltime \div 4 - 180 * Q

\* line 459
ZAngle(lat, decl, hrangle) ==
  LET a == acos(Mul(sin(d2r(lat)), sin(d2r(decl)))
                + Mul(Mul(cos(d2r(lat)), cos(d2r(decl))), cos(d2r(hrangle))))
  IN IF a = NaN THEN NaN ELSE r2d(a)

\* line 460
Elevation(zangle) == IF zangle = NaN THEN NaN ELSE 90 * Q - zangle

\* lines 461-469; every comparison with a NaN is false, and 58.1 / tan (e) is
\* computed as 58.1 * cot (e).
Refract(e) ==
  IF e = NaN THEN NaN
  ELSE IF e > 85 * Q THEN 0
  ELSE IF e > 5 * Q THEN
    LET c  == cot(d2r(e))
        c2 == Mul(c, c)
    IN (Mul(K_ref1, c) - Mul(K_ref3, Mul(c2, c))
          + Mul(Mul(c2, c2) \div 1000, 86 * c) \div 1000) \div 3600
  ELSE IF e > 0 - K_e575 THEN
    (K_pol0 + Mul(e, Mul(e, K_pol2 + Mul(e, Mul(e, K_pol4) - K_pol3)) - K_pol1)) \div 3600
  ELSE (0 - Mul(K_low, cot(d2r(e)))) \div 3600

\* The acos of lines 472 and 474, in degrees.
AzAcos(lat, decl, zangle) ==
  IF zangle = NaN THEN NaN
  ELSE LET den == Mul(cos(d2r(lat)), sin(d2r(zangle)))
           num == Mul(sin(d2r(lat)), cos(d2r(zangle))) - sin(d2r(decl))
           a   == IF den = 0 THEN NaN ELSE acos(Div(num, den))
       IN IF a = NaN THEN NaN ELSE r2d(a)

\* lines 471-474: the branch on the folded hour angle, acosdeg the
\* r2d (acos (...)) both branches share.
Azimuth(hrangle, acosdeg) ==
  IF acosdeg = NaN THEN NaN
  ELSE IF hrangle > 0 THEN fmod(acosdeg + 180 * Q, 360 * Q)
  ELSE fmod(540 * Q - acosdeg, 360 * Q)

\* noaa_eq, lines 471-474: the globals it assigns that anything reads
\* afterwards, azacos the r2d (acos (...)) of the two branches.  (radvect_au,
\* rtasc_deg, ha_rise_deg, noon_lst, rise_lst, set_lst and lightdur_min are
\* assigned and never read.)
noaa_eq_471(truelong, decl, eqoftime, soltime, hrangle, zangle, elevd, azacos) ==
  [ truelong_deg |-> truelong,
    decl_deg     |-> decl,
    eqoftime_min |-> eqoftime,
    soltime_min  |-> soltime,
    hrangle_deg  |-> hrangle,
    zangle_deg   |-> zangle,
    elev_deg     |-> elevd,
    elevc_deg    |-> IF elevd = NaN THEN NaN ELSE elevd + Refract(elevd),
    az_deg       |-> Azimuth(hrangle, azacos) ]

\* noaa_eq from line 460 on
noaa_eq_460(lat, truelong, decl, eqoftime, soltime, hrangle, zangle, elevd) ==
  noaa_eq_471(truelong, decl, eqoftime, soltime, hrangle, zangle, elevd,
              AzAcos(lat, decl, zangle))

\* noaa_eq from line 459 on
noaa_eq_459(lat, truelong, decl, eqoftime, soltime, hrangle, zangle) ==
  noaa_eq_460(lat, truelong, decl, eqoftime, soltime, hrangle, zangle, Elevation(zangle))

\* noaa_eq from line 458 on
noaa_eq_458(lat, truelong, decl, eqoftime, soltime, hrangle) ==
  noaa_eq_459(lat, truelong, decl, eqoftime, soltime, hrangle, ZAngle(lat, decl, hrangle))

\* noaa_eq from line 457 on
noaa_eq_457(lat, lon, tz, wt, truelong, decl, eqoftime, soltime) ==
  noaa_eq_458(lat, truelong, decl, eqoftime, soltime, HrAngle(soltime))

\* noaa_eq from line 441 on: applong_deg, decl_deg, eqoftime_min, soltime_min
noaa_eq_441(lat, lon, tz, wt, gmlong, gmanom, eccent, truelong, ocorr, eqoftime, omega) ==
  noaa_eq_457(lat, lon, tz, wt, truelong,
              r2d(asin(Mul(sin(d2r(ocorr)),
                           sin(d2r(truelong - K_app0 - Mul(K_app1, sin(d2r(omega)))))))),
              eqoftime, SolTime(wt, eqoftime, lon, tz))

\* noaa_eq from line 438 on, eqoftime_min of lines 446-451 with it
noaa_eq_438(lat, lon, tz, wt, gmlong, gmanom, eccent, truelong, ocorr, omega) ==
  noaa_eq_441(lat, lon, tz, wt, gmlong, gmanom, eccent, truelong, ocorr,
              EqOfTime(gmlong, gmanom, eccent, ocorr), omega)

\* noaa_eq from line 434 on: eccent, truelong_deg, ocorr_deg
noaa_eq_434(lat, lon, tz, wt, jcen, gmlong, gmanom, omega) ==
  noaa_eq_438(lat, lon, tz, wt, gmlong, gmanom, Eccent(jcen),
              gmlong + EqOfCtr(jcen, gmanom),
              Moe(jcen) + Mul(K_oc1, cos(d2r(omega))), omega)

\* noaa_eq from line 431 on: jcen, gmlong_deg, gmanom_deg
noaa_eq_431(lat, lon, tz, wt, m) ==
  noaa_eq_434(lat, lon, tz, wt, JCen(m), GmLong(m), GmAnom(m), Omega(m))

\* noaa_eq, lines 429-475, from the globals it reads.
noaa_eq(lat, lon, tz, date, wt) == noaa_eq_431(lat, lon, tz, wt, JMinutes(date, wt, tz))

\* ------------------------------------------------------- dates and times

\* QDate (y, m, d) as its Julian day number (the proleptic Gregorian
\* calendar of QDate), for a valid date of a year after 0.
QDate(y, m, d) ==
  LET a  == (14 - m) \div 12
      yy == y + 4800 - a
      mm == m + 12 * a - 3
  IN d + (153 * mm + 2) \div 5 + 365 * yy + yy \div 4 - yy \div 100 + yy \div 400 - 32045

\* QDate::year of a Julian day number.
year(jd) ==
  LET a == jd + 32044
      b == (4 * a + 3) \div 146097
      c == a - (146097 * b) \div 4
      d == (4 * c + 3) \div 1461
      e == c - (1461 * d) \div 4
      m == (5 * e + 2) \div 153
  IN 100 * b + d - 4800 + m \div 10

\* QDate::dayOfWeek: 1 = Monday .. 7 = Sunday.
dayOfWeek(jd) == (jd % 7) + 1

\* QTime::addSecs on a time of day in seconds: wraps around midnight.
addSecs(t, s) == (t + s) % 86400

\* QTime::hour, QTime::minute
hour(t) == t \div 3600
minute(t) == (t \div 60) % 60

\* The conversion of the double 3600 * (timezone_hr - my_timezone) to the int
\* parameter of addSecs: truncation toward zero.
ShiftSecs(tz, mytz) ==
  LET v == 3600 * (tz - mytz)
  IN IF v >= 0 THEN v \div Q ELSE 0 - ((0 - v) \div Q)

\* A faulty variant of the search below: it stops on a Saturday.
RECURSIVE SundaySearchSaturday(_, _, _)
SundaySearchSaturday(y, m, n) ==
  IF n < 1 THEN 0
  ELSE IF dayOfWeek(QDate(y, m, n)) = 6 THEN n
  ELSE SundaySearchSaturday(y, m, n - 1)

\* lines 618-623: n = 31; while (QDate (y, m, n).dayOfWeek () != 7) n--;
\* the day of the month the search stops on, 0 when it runs out of the month
\* (QDate (y, m, n) is then invalid, its dayOfWeek is 0, and the loop never ends).
RECURSIVE SundaySearch(_, _, _)
SundaySearch(y, m, n) ==
  IF n < 1 THEN 0
  ELSE IF dayOfWeek(QDate(y, m, n)) = 7 THEN n
  ELSE SundaySearch(y, m, n - 1)

\* The hour the transition days are compared with (lines 625, 627).
DstHour == 3

\* A faulty variant of the comparison below: it includes the hour itself.
FromDstHour(h) == h >= DstHour

\* t.hour () > 3, lines 625 and 627
PastDstHour(h) == h > DstHour

\* setdst_eu, lines 611-630: d the current date, t the current time of day,
\* tz and mytz the globals timezone_hr and my_timezone.
setdst_eu(d, t, tz, mytz) ==
  LET ts   == addSecs(t, ShiftSecs(tz, mytz))
      dmar == QDate(year(d), 3, SundaySearch(year(d), 3, 31))
      doct == QDate(year(d), 10, SundaySearch(year(d), 10, 31))
      n1   == IF d = dmar /\ PastDstHour(hour(ts)) THEN 1 ELSE 0
      n2   == IF d > dmar THEN 1 ELSE n1
      n3   == IF d = doct /\ PastDstHour(hour(ts)) THEN 0 ELSE n2
  IN IF d > doct THEN 0 ELSE n3

\* ---------------------------------------------------------------- strings

\* A C string is the sequence of its characters, each a one-character
\* string; "ae" and "oe" stand for the two non-ASCII letters of the built-in
\* names, "\n" for the newline.
UpperCase == <<"A", "B", "C", "D", "E", "F", "G", "H", "I", "J", "K", "L", "M",
               "N", "O", "P", "Q", "R", "S", "T", "U", "V", "W", "X", "Y", "Z">>
LowerCase == <<"a", "b", "c", "d", "e", "f", "g", "h", "i", "j", "k", "l", "m",
               "n", "o", "p", "q", "r", "s", "t", "u", "v", "w", "x", "y", "z">>
DigitChars == <<"0", "1", "2", "3", "4", "5", "6", "7", "8", "9">>

tolower(c) ==
  IF \E k \in 1..26 : UpperCase[k] = c
  THEN LowerCase[CHOOSE k \in 1..26 : UpperCase[k] = c]
  ELSE c

\* strcmpi (a, b) == 0
strcmpi0(a, b) ==
  /\ Len(a) = Len(b)
  /\ \A k \in 1..Len(a) : tolower(a[k]) = tolower(b[k])

isspace(c) == c \in {" ", "\n"}
isdigit(c) == \E k \in 1..10 : DigitChars[k] = c
DigitVal(c) == (CHOOSE k \in 1..10 : DigitChars[k] = c) - 1

\* strchr (line, ch) != NULL
strchr(line, ch) == \E k \in 1..Len(line) : line[k] = ch

Drop(s, n) == SubSeq(s, n + 1, Len(s))

\* The number of leading characters of s that satisfy / do not satisfy isspace.
RECURSIVE SpaceRun(_)
SpaceRun(s) == IF s = <<>> \/ ~isspace(s[1]) THEN 0 ELSE 1 + SpaceRun(Tail(s))
RECURSIVE WordRun(_)
WordRun(s) == IF s = <<>> \/ isspace(s[1]) THEN 0 ELSE 1 + WordRun(Tail(s))
RECURSIVE DigitRun(_)
DigitRun(s) == IF s = <<>> \/ ~isdigit(s[1]) THEN 0 ELSE 1 + DigitRun(Tail(s))

\* The value of a run of digits, and 10 to the power of its length.
RECURSIVE DigitsValue(_)
DigitsValue(s) == IF s = <<>> THEN 0 ELSE 10 * DigitsValue(SubSeq(s, 1, Len(s) - 1)) + DigitVal(s[Len(s)])
RECURSIVE Pow10(_)
Pow10(n) == IF n = 0 THEN 1 ELSE 10 * Pow10(n - 1)

SkipSpace(s) == Drop(s, SpaceRun(s))

\* The %lf conversion of sscanf on the input s (leading white space already
\* skipped): an optional sign, digits, an optional point and digits, with at
\* least one digit.  [ok, val, rest]; nothing is consumed when it fails.
\* sgn, ni, pt, nf: the lengths of the sign, the digits before the point, the
\* point and the digits after it.
ScanFrac(s, sgn, ni, pt, nf) ==
  IF ni + nf = 0 THEN [ok |-> FALSE, val |-> 0, rest |-> s]
  ELSE [ok |-> TRUE,
        val |-> (IF sgn = 1 /\ s[1] = "-" THEN 0 - 1 ELSE 1)
                * (DigitsValue(SubSeq(s, sgn + 1, sgn + ni)) * Q
                   + (IF nf = 0 THEN 0
                      ELSE Dec(DigitsValue(SubSeq(s, sgn + ni + pt + 1, sgn + ni + pt + nf)),
                               Pow10(nf)))),
        rest |-> Drop(s, sgn + ni + pt + nf)]

ScanPoint(s, sgn, ni, pt) ==
  ScanFrac(s, sgn, ni, pt, IF pt = 1 THEN DigitRun(Drop(s, sgn + ni + pt)) ELSE 0)

ScanInt(s, sgn, ni) ==
  ScanPoint(s, sgn, ni, IF Len(s) > sgn + ni /\ s[sgn + ni + 1] = "." THEN 1 ELSE 0)

ScanSign(s, sgn) == ScanInt(s, sgn, DigitRun(Drop(s, sgn)))

ScanDouble(s) == ScanSign(s, IF s # <<>> /\ s[1] \in {"-", "+"} THEN 1 ELSE 0)

\* sscanf (line, "%s %lf %lf %lf %s", rloc, la, lo, tz, dststr), line 709:
\* the conversions are made in order and stop at the first that fails; each
\* one made assigns its object, the others keep what they held.
\* v = [n, rloc, la, lo, tz, dststr] holds the objects, n the number of
\* conversions made; s is the input left, w the length of its first word and
\* d the result of ScanDouble on it.
sscanf_dststr(v, s, w) ==
  IF w = 0 THEN v ELSE [v EXCEPT !.n = 5, !.dststr = SubSeq(s, 1, w)]

sscanf_tz(v, d) ==
  IF ~d.ok THEN v
  ELSE sscanf_dststr([v EXCEPT !.n = 4, !.tz = d.val], SkipSpace(d.rest),
                     WordRun(SkipSpace(d.rest)))

sscanf_lo(v, d) ==
  IF ~d.ok THEN v
  ELSE sscanf_tz([v EXCEPT !.n = 3, !.lo = d.val], ScanDouble(SkipSpace(d.rest)))

sscanf_la(v, d) ==
  IF ~d.ok THEN v
  ELSE sscanf_lo([v EXCEPT !.n = 2, !.la = d.val], ScanDouble(SkipSpace(d.rest)))

sscanf_rloc(v, s, w) ==
  IF w = 0 THEN v
  ELSE sscanf_la([v EXCEPT !.n = 1, !.rloc = SubSeq(s, 1, w)],
                 ScanDouble(SkipSpace(Drop(s, w))))

sscanf5(line, v) == sscanf_rloc([v EXCEPT !.n = 0], SkipSpace(line), WordRun(SkipSpace(line)))

\* ------------------------------------------------------ location resolver

\* The name of the tag that asks for the EU rule (line 711).
EU == <<"E", "U">>

\* The built-in table of setcoord, lines 720-806, in the order of its tests.
BuiltIn == <<
  [names |-> <<<<"H", "e", "l", "s", "i", "n", "k", "i">>>>,
   la |-> Dec(6016, 100), lo |-> Dec(2483, 100), tz |-> 2 * Q, eu |-> TRUE],
  [names |-> <<<<"R", "i", "i", "h", "i", "m", "ae", "k", "i">>>>,
   la |-> Dec(60739, 1000), lo |-> Dec(24772, 1000), tz |-> 2 * Q, eu |-> TRUE],
  [names |-> <<<<"T", "a", "m", "p", "e", "r", "e">>>>,
   la |-> Dec(61498, 1000), lo |-> Dec(23761, 1000), tz |-> 2 * Q, eu |-> TRUE],
  [names |-> <<<<"Y", "l", "oe", "j", "ae", "r", "v", "i">>>>,
   la |-> Dec(6155, 100), lo |-> Dec(23583, 1000), tz |-> 2 * Q, eu |-> TRUE],
  [names |-> <<<<"R", "o", "v", "a", "n", "i", "e", "m", "i">>>>,
   la |-> Dec(665, 10), lo |-> Dec(25733, 1000), tz |-> 2 * Q, eu |-> TRUE],
  [names |-> <<<<"I", "n", "a", "r", "i">>>>,
   la |-> Dec(68905, 1000), lo |-> Dec(2703, 100), tz |-> 2 * Q, eu |-> TRUE],
  [names |-> <<<<"U", "t", "s", "j", "o", "k", "i">>>>,
   la |-> Dec(699, 10), lo |-> Dec(27017, 1000), tz |-> 2 * Q, eu |-> TRUE],
  [names |-> <<<<"T", "u", "k", "h", "o", "l", "m", "a">>, <<"S", "t", "o", "c", "k", "h", "o", "l", "m">>>>,
   la |-> Dec(59329, 1000), lo |-> Dec(18069, 1000), tz |-> 1 * Q, eu |-> TRUE],
  [names |-> <<<<"V", "a", "r", "g", "oe", "n">>>>,
   la |-> Dec(5835, 100), lo |-> Dec(124, 10), tz |-> 1 * Q, eu |-> TRUE],
  [names |-> <<<<"R", "e", "y", "k", "j", "a", "v", "i", "k">>>>,
   la |-> Dec(64135, 1000), lo |-> 0 - Dec(21895, 1000), tz |-> 0, eu |-> FALSE],
  [names |-> <<<<"L", "o", "n", "g", "y", "e", "a", "r", "b", "y", "e", "n">>>>,
   la |-> Dec(7822, 100), lo |-> Dec(1565, 100), tz |-> 1 * Q, eu |-> TRUE],
  [names |-> <<<<"T", "a", "l", "l", "i", "n", "n", "a">>, <<"T", "a", "l", "l", "i", "n", "n">>>>,
   la |-> Dec(59437, 1000), lo |-> Dec(24745, 1000), tz |-> 2 * Q, eu |-> TRUE],
  [names |-> <<<<"M", "o", "s", "k", "o", "v", "a">>, <<"M", "o", "s", "c", "o", "w">>>>,
   la |-> Dec(5575, 100), lo |-> Dec(37617, 1000), tz |-> 2 * Q, eu |-> TRUE],
  [names |-> <<<<"L", "o", "n", "t", "o", "o">>, <<"L", "o", "n", "d", "o", "n">>>>,
   la |-> Dec(515, 10), lo |-> 0 - Dec(126, 1000), tz |-> 0, eu |-> TRUE],
  [names |-> <<<<"H", "a", "m", "p", "u", "r", "i">>, <<"H", "a", "m", "b", "u", "r", "g">>>>,
   la |-> Dec(53553, 1000), lo |-> Dec(9992, 1000), tz |-> 1 * Q, eu |-> TRUE],
  [names |-> <<<<"R", "o", "o", "m", "a">>, <<"R", "o", "m", "a">>>>,
   la |-> Dec(41895, 1000), lo |-> Dec(12482, 1000), tz |-> 1 * Q, eu |-> TRUE],
  [names |-> <<<<"T", "o", "k", "i", "o">>, <<"T", "o", "k", "y", "o">>>>,
   la |-> Dec(35683, 1000), lo |-> Dec(139767, 1000), tz |-> 9 * Q, eu |-> FALSE],
  [names |-> <<<<"T", "e", "h", "e", "r", "a", "n">>, <<"T", "e", "h", "r", "a", "n">>>>,
   la |-> Dec(35696, 1000), lo |-> Dec(51423, 1000), tz |-> Dec(35, 10), eu |-> FALSE] >>

\* fgets (line, 252, f): at most 251 characters.
LineMax == 251

\* The line fgets reads at offset pos (0-based) of the file text: up to and
\* including the next newline, at most LineMax characters.
RECURSIVE LineLen(_, _, _)
LineLen(text, pos, n) ==
  IF n = LineMax \/ pos + n >= Len(text) THEN n
  ELSE IF text[pos + n + 1] = "\n" THEN n + 1
  ELSE LineLen(text, pos, n + 1)

\* The while loop of setcoord, lines 704-714, from the file offset pos with
\* the objects v = [n, rloc, la, lo, tz, dststr]; d, t, mytz as for setdst_eu
\* (timezone_hr is the object tz points to).  The objects after the loop.
RECURSIVE ScanFile(_, _, _, _, _, _, _)

\* lines 710-713, w the objects after the sscanf of the line, next the offset
\* of the line after it.
ScanMatch(text, next, w, loc, d, t, mytz) ==
  IF strcmpi0(w.rloc, loc)
  THEN IF strcmpi0(w.dststr, EU)
       THEN [w EXCEPT !.tz = w.tz + setdst_eu(d, t, w.tz, mytz) * Q]
       ELSE w
  ELSE ScanFile(text, next, w, loc, d, t, mytz)

\* lines 706-709 for the line fgets has read: a line that ends the file
\* without a newline has set the end-of-file indicator.
ScanLine(text, next, line, v, loc, d, t, mytz) ==
  IF line[Len(line)] # "\n" /\ Len(line) < LineMax THEN v
  ELSE IF line[1] = "\n" THEN ScanFile(text, next, v, loc, d, t, mytz)
  ELSE IF strchr(line, "*") THEN v
  ELSE ScanMatch(text, next, sscanf5(line, v), loc, d, t, mytz)

\* line 705, n the length of the line fgets reads at pos.
ScanRead(text, pos, n, v, loc, d, t, mytz) ==
  ScanLine(text, pos + n, SubSeq(text, pos + 1, pos + n), v, loc, d, t, mytz)

ScanFile(text, pos, v, loc, d, t, mytz) ==
  IF pos >= Len(text) THEN v
  ELSE ScanRead(text, pos, LineLen(text, pos, 0), v, loc, d, t, mytz)

\* The index of the first entry of the built-in table one of whose names is
\* loc, 0 when there is none (lines 720-808).
BuiltInIndex(loc) ==
  IF \E k \in 1..Len(BuiltIn) : \E j \in 1..Len(BuiltIn[k].names) : strcmpi0(loc, BuiltIn[k].names[j])
  THEN CHOOSE k \in 1..Len(BuiltIn) :
         /\ \E j \in 1..Len(BuiltIn[k].names) : strcmpi0(loc, BuiltIn[k].names[j])
         /\ \A h \in 1..(k - 1) : \A j \in 1..Len(BuiltIn[h].names) : ~strcmpi0(loc, BuiltIn[h].names[j])
  ELSE 0

\* line 716: if (f) {fclose (f); return (true);}
FoundInFile(f) == f.exists

\* lines 703-716, v the objects after the loop.
FromFile(v) == [ret |-> TRUE, la |-> v.la, lo |-> v.lo, tz |-> v.tz]

\* lines 720-808, k the index of the entry of the built-in table, 0 for none.
FromBuiltIn(v0, k, d, t, mytz) ==
  IF k = 0 THEN [ret |-> FALSE, la |-> v0.la, lo |-> v0.lo, tz |-> v0.tz]
  ELSE [ret |-> TRUE, la |-> BuiltIn[k].la, lo |-> BuiltIn[k].lo,
        tz |-> BuiltIn[k].tz
               + (IF BuiltIn[k].eu THEN setdst_eu(d, t, BuiltIn[k].tz, mytz) * Q ELSE 0)]

\* setcoord (loc, &lat_deg, &long_deg, &timezone_hr), lines 693-810.
\* f = [exists, text] the file noaa_clock.cnf; v0 the objects before the call:
\* la, lo, tz the three globals, rloc and dststr the indeterminate contents of
\* the two local arrays.  [ret, la, lo, tz].
setcoord(loc, f, v0, d, t, mytz) ==
  IF FoundInFile(f) THEN FromFile(ScanFile(f.text, 0, v0, loc, d, t, mytz))
  ELSE FromBuiltIn(v0, BuiltInIndex(loc), d, t, mytz)

\* ---------------------------------------------------------- the program

VARIABLES
  pc,           \* where the program is: "main", "load", "timer", "exec", "exit",
                \* "crash" (killed in an undefined call)
                \* (and the starting and final points of the function checks)
  argv,         \* the command-line arguments after the program name
  cnf,          \* the file noaa_clock.cnf: [exists, text]
  stack,        \* the indeterminate contents of uninitialised local arrays
  now,          \* the system clock: [d (Julian day number), t (second of the day)]
  lat_deg, long_deg, timezone_hr, my_timezone, date_d, wtime_day,
  eng,          \* the globals noaa_eq leaves its results in
  solarmin, elev, elevc, azim, sunlong,
  li,           \* the loop index i of load
  caller,       \* who called eloop: "first", "extra" (main) or "timer"
  cur,          \* the current sample: idx, cf, cfs, cfc, caz, ce, cec, csl
  timer,        \* the 5000 ms timer is started and connected to eloop
  ticks,        \* timeouts delivered so far
  run,          \* number of load runs started
  done,         \* number of load runs completed
  writer,       \* for each table entry, the load run that wrote it last (0: none)
  tab_date,     \* the date_d the entries of the running or last load were computed with
  seen,         \* what the last reader of the table read: [by, tags, done]
  ret,          \* the exit status of main, -1 while it has not returned
  dstret,       \* the value returned by setdst_eu
  out,          \* what main has printed: [said (the messages), locs (the names listed)]
  acos_deg      \* r2d (acos (..)) of lines 459 and 472/474, when drawn as inputs

vars == <<pc, argv, cnf, stack, now, lat_deg, long_deg, timezone_hr, my_timezone,
          date_d, wtime_day, eng, solarmin, elev, elevc, azim, sunlong, li, caller,
          cur, timer, ticks, run, done, writer, tab_date, seen, ret, dstret, out, acos_deg>>

\* float x [1440], lines 69-73
TabLen == 1440

ZeroTable == [k \in 1..TabLen |-> 0]

ZeroEng == [truelong_deg |-> 0, decl_deg |-> 0, eqoftime_min |-> 0, soltime_min |-> 0,
            hrangle_deg |-> 0, zangle_deg |-> 0, elev_deg |-> 0, elevc_deg |-> 0,
            az_deg |-> 0]

ZeroCur == [idx |-> 0, cf |-> 0, cfs |-> 0, cfc |-> 0, caz |-> 0, ce |-> 0, cec |-> 0, csl |-> 0]

NoRead == [by |-> "none", tags |-> {}, done |-> 0]

\* The first white-space delimited word of s (sscanf "%s"), g when s has none
\* and the object keeps its indeterminate contents.
FirstWord(s, g) ==
  LET a == Drop(s, SpaceRun(s))
  IN IF WordRun(a) = 0 THEN g ELSE SubSeq(a, 1, WordRun(a))

\* sscanf (s, "%lf", &x): the converted value, x when the conversion fails.
ArgDouble(s, x) ==
  LET r == ScanDouble(Drop(s, SpaceRun(s)))
  IN IF r.ok THEN r.val ELSE x

\* The call of setcoord of lines 868 and 879, mytz the value of my_timezone.
Resolve(mytz) ==
  setcoord(FirstWord(argv[1], stack.loc), cnf,
           [n |-> 0, rloc |-> stack.rloc, la |-> lat_deg, lo |-> long_deg,
            tz |-> timezone_hr, dststr |-> stack.dststr],
           now.d, now.t, mytz)

\* lines 866-885: r what setcoord returned, mytz the my_timezone it ran with;
\* with two arguments my_timezone becomes the resolved timezone_hr.
MainByName(r, mytz, own) ==
  [ok |-> r.ret, la |-> r.la, lo |-> r.lo, tz |-> r.tz,
   mytz |-> IF own /\ r.ret THEN r.tz ELSE mytz]

\* lines 886-897
MainByCoord(la, lo, tz, mytz) == [ok |-> TRUE, la |-> la, lo |-> lo, tz |-> tz, mytz |-> mytz]

\* main, lines 864-901: the arguments give the location by name (argc 2, 3)
\* or by coordinates (argc 4, >= 5); argc is Len (argv) + 1.
\* [ok, la, lo, tz, mytz].
MainArgs ==
  IF Len(argv) = 1 THEN MainByName(Resolve(my_timezone), my_timezone, TRUE)
  ELSE IF Len(argv) = 2
    THEN MainByName(Resolve(ArgDouble(argv[2], my_timezone)),
                    ArgDouble(argv[2], my_timezone), FALSE)
  ELSE IF Len(argv) = 3
    THEN MainByCoord(ArgDouble(argv[1], lat_deg), ArgDouble(argv[2], long_deg),
                     ArgDouble(argv[3], timezone_hr), ArgDouble(argv[3], timezone_hr))
  ELSE IF Len(argv) >= 4
    THEN MainByCoord(ArgDouble(argv[1], lat_deg), ArgDouble(argv[2], long_deg),
                     ArgDouble(argv[3], timezone_hr), ArgDouble(argv[4], my_timezone))
  ELSE [ok |-> FALSE, la |-> lat_deg, lo |-> long_deg, tz |-> timezone_hr,
        mytz |-> my_timezone]

\* Nothing printed yet.
NoOutput == [said |-> <<>>, locs |-> <<>>]

\* The loop of showlocs, lines 659-664, from the file offset pos: the names it
\* prints.  line and rloc are the contents of the two arrays (indeterminate
\* before the first fgets and sscanf), eof the end-of-file indicator.
RECURSIVE ShowLoop(_, _, _, _, _)

\* line 663, name the contents of rloc after the sscanf of line 662
ShowName(text, next, line, name, eof) ==
  <<name>> \o ShowLoop(text, next, line, name, eof)

\* lines 661-662 for the array line as fgets left it: a '*' ends the list, a
\* line with no word leaves rloc as it was.
ShowLine(text, next, line, rloc, eof) ==
  IF strchr(line, "*") THEN <<>>
  ELSE ShowName(text, next, line, FirstWord(line, rloc), eof)

\* line 660, n the number of characters fgets reads at pos: with none left it
\* sets the end-of-file indicator and leaves the array as it was, and a last
\* line without a newline sets the indicator too.
ShowRead(text, pos, n, line, rloc) ==
  IF n = 0 THEN ShowLine(text, pos, line, rloc, TRUE)
  ELSE ShowLine(text, pos + n, SubSeq(text, pos + 1, pos + n), rloc,
                text[pos + n] # "\n" /\ n < LineMax)

ShowLoop(text, pos, line, rloc, eof) ==
  IF eof THEN <<>> ELSE ShowRead(text, pos, LineLen(text, pos, 0), line, rloc)

\* showlocs, lines 652-666: what it prints for the file f, g the indeterminate
\* contents of its two arrays.  The heading and the names are printed only
\* when the file could be opened; the names are those of the file alone.
showlocs(f, g) ==
  [said |-> IF f.exists THEN <<"known", "end">> ELSE <<"end">>,
   locs |-> IF f.exists THEN ShowLoop(f.text, 0, g.dststr, g.rloc, FALSE) ELSE <<>>]

\* line 667: fclose (f).  With the null pointer of a failed fopen the call is
\* undefined: the program is killed there ("crash") or the call returns and
\* main goes on to its return ("exit").
fclose(f) == IF f.exists THEN {"exit"} ELSE {"exit", "crash"}

\* usage, lines 832-836
usage == <<"usage">>

\* main, lines 870-873: the message of the unknown location, usage and
\* showlocs, then return (1); s what showlocs prints.
MainUnknown(s) ==
  /\ out' = [said |-> <<"unknown">> \o usage \o s.said, locs |-> s.locs]
  /\ \E e \in fclose(cnf) : pc' = e /\ ret' = IF e = "exit" THEN 1 ELSE ret

\* main, lines 900-901: usage and return (1).
MainUsage == out' = [said |-> usage, locs |-> <<>>] /\ pc' = "exit" /\ ret' = 1

\* The globals main has set, m as MainArgs gives them; it returns 1 or calls
\* eloop, which begins with load ().
MainSet(m) ==
  /\ lat_deg' = m.la /\ long_deg' = m.lo /\ timezone_hr' = m.tz /\ my_timezone' = m.mytz
  /\ IF m.ok THEN pc' = "load" /\ ret' = ret /\ out' = out
     ELSE IF Len(argv) = 0 THEN MainUsage
     ELSE MainUnknown(showlocs(cnf, stack))
  /\ caller' = IF m.ok THEN "first" ELSE caller
  /\ run' = IF m.ok THEN run + 1 ELSE run

\* main, lines 864-908: up to its return (1) or its first call of eloop.
main ==
  /\ pc = "main"
  /\ MainSet(MainArgs)
  /\ li' = 0
  /\ UNCHANGED <<argv, cnf, stack, now, date_d, wtime_day, eng, solarmin, elev, elevc,
                 azim, sunlong, cur, timer, ticks, done, writer, tab_date, seen,
                 dstret, acos_deg>>

\* A faulty variant of the day fraction below: that of the minute after.
DayFractionOfNext(i) == (i + 1) % 1440

\* (double) i / 1440.0, line 509, held as its numerator.
DayFraction(i) == i

\* The entries of tab from lo to hi replaced by the conversions to float of
\* val[1], val[2], .., the others kept (the assignment of one of lines 511-515).
Stored(tab, lo, hi, val) ==
  [k \in 1..TabLen |-> IF lo < k /\ k <= hi + 1 THEN ToFloat(val[k - lo]) ELSE tab[k]]

\* The assignments of lines 511-515 for the indices lo..hi, r the sequence of
\* the results of noaa_eq for these indices.
StoreEntries(lo, hi, r) ==
  /\ eng' = r[Len(r)]
  /\ solarmin' = Stored(solarmin, lo, hi, [j \in 1..Len(r) |-> r[j].soltime_min])
  /\ elev'     = Stored(elev, lo, hi, [j \in 1..Len(r) |-> r[j].elev_deg])
  /\ elevc'    = Stored(elevc, lo, hi, [j \in 1..Len(r) |-> r[j].elevc_deg])
  /\ azim'     = Stored(azim, lo, hi, [j \in 1..Len(r) |-> r[j].az_deg])
  /\ sunlong'  = Stored(sunlong, lo, hi, [j \in 1..Len(r) |-> r[j].truelong_deg])
  /\ writer'   = [k \in 1..TabLen |-> IF lo < k /\ k <= hi + 1 THEN run ELSE writer[k]]
  /\ tab_date' = date_d

\* The results of the calls of noaa_eq of line 510 for the indices lo..hi.
RECURSIVE Evaluations(_, _)
Evaluations(lo, hi) ==
  IF hi < lo THEN <<>>
  ELSE Append(Evaluations(lo, hi - 1),
              noaa_eq(lat_deg, long_deg, timezone_hr, date_d, DayFraction(hi)))

\* The body of the loop of load, lines 509-515, for the indices lo..hi in turn.
LoadEntries(lo, hi) ==
  /\ wtime_day' = DayFraction(hi)
  /\ StoreEntries(lo, hi, Evaluations(lo, hi))

\* The iterations of the loop of load taken in one step.
LoadSteps == 48

\* The last index of the step of load that begins at the index i.
StepEnd(i) == IF i + LoadSteps < TabLen THEN i + LoadSteps - 1 ELSE TabLen - 1

\* load, lines 507-518: the next LoadSteps iterations of its loop.
load ==
  /\ pc = "load"
  /\ li < TabLen
  /\ LoadEntries(li, StepEnd(li))
  /\ li' = StepEnd(li) + 1
  /\ done' = IF StepEnd(li) + 1 = TabLen THEN run ELSE done
  /\ UNCHANGED <<pc, out, argv, cnf, stack, now, lat_deg, long_deg, timezone_hr, my_timezone,
                 date_d, caller, cur, timer, ticks, run, seen, ret, dstret, acos_deg>>

\* The quotient of a by b truncated toward zero (the conversion to int).
TruncDiv(a, b) == IF a >= 0 THEN a \div b ELSE 0 - ((0 - a) \div b)

\* upd, line 271: the table index read for the minute k of the display.
UpdIndex(k) ==
  LET a == TruncDiv(k * Q - solarmin[1], Q)
      b == IF a < 0 THEN a + TabLen ELSE a
  IN IF b >= TabLen THEN b - TabLen ELSE b

\* upd, lines 260-297: the load runs that wrote the entries it reads,
\* solarmin [0] and elevc [i] for each minute (-1: an index outside the table).
UpdTags ==
  {writer[1]} \cup {IF UpdIndex(k) \in 0..(TabLen - 1) THEN writer[UpdIndex(k) + 1] ELSE 0 - 1 :
                     k \in 0..(TabLen - 1)}

\* dd.daysTo (d)
daysTo(a, b) == b - a

\* eloop, lines 563-578: after load () has returned, the date, the current
\* sample and the synchronous repaint (paintEvent, upd); then the return to
\* the caller.
eloop ==
  /\ pc = "load"
  /\ li = TabLen
  /\ LET t    == addSecs(now.t, ShiftSecs(timezone_hr, my_timezone))
         idxw == 60 * hour(t) + minute(t)
         idx  == solarmin[idxw + 1]
         cf   == ToFloat(TruncDiv(idx, TabLen))
     IN /\ date_d' = daysTo(QDate(1900, 1, 1), now.d) + 2
        /\ wtime_day' = idxw
        /\ cur' = [idx |-> idx, cf |-> cf,
                   cfs |-> ToFloat(sin(Mul(dpi, Q \div 4 - cf))),
                   cfc |-> ToFloat(cos(Mul(dpi, Q \div 4 - cf))),
                   caz |-> azim[idxw + 1], ce |-> elev[idxw + 1],
                   cec |-> elevc[idxw + 1], csl |-> sunlong[idxw + 1]]
        /\ seen' = [by |-> "repaint", tags |-> {writer[idxw + 1]} \cup UpdTags, done |-> done]
  /\ pc' = IF caller = "first" THEN "timer" ELSE "exec"
  /\ UNCHANGED <<out, argv, cnf, stack, now, lat_deg, long_deg, timezone_hr, my_timezone,
                 eng, solarmin, elev, elevc, azim, sunlong, li, caller, timer, ticks,
                 run, done, writer, tab_date, ret, dstret, acos_deg>>

\* main, lines 909-911: the timer is started and connected, and eloop is
\* called once more.
main_timer ==
  /\ pc = "timer"
  /\ timer' = TRUE
  /\ pc' = "load" /\ li' = 0 /\ caller' = "extra" /\ run' = run + 1
  /\ UNCHANGED <<out, argv, cnf, stack, now, lat_deg, long_deg, timezone_hr, my_timezone,
                 date_d, wtime_day, eng, solarmin, elev, elevc, azim, sunlong, cur,
                 ticks, done, writer, tab_date, seen, ret, dstret, acos_deg>>

\* timer.start (5000), line 909
TimerSecs == 5

\* The clock s seconds later.
Later(n, s) ==
  IF n.t + s >= 86400 THEN [d |-> n.d + 1, t |-> n.t + s - 86400]
  ELSE [d |-> n.d, t |-> n.t + s]

\* The number of timeouts followed.
MaxTicks == 1

\* app.exec (), line 912: the event loop delivers a timeout of the timer to
\* the slot eloop, which begins with load ().
timeout ==
  /\ pc = "exec"
  /\ timer
  /\ ticks < MaxTicks
  /\ now' = Later(now, TimerSecs)
  /\ ticks' = ticks + 1
  /\ pc' = "load" /\ li' = 0 /\ caller' = "timer" /\ run' = run + 1
  /\ UNCHANGED <<out, argv, cnf, stack, lat_deg, long_deg, timezone_hr, my_timezone,
                 date_d, wtime_day, eng, solarmin, elev, elevc, azim, sunlong, cur,
                 timer, done, writer, tab_date, seen, ret, dstret, acos_deg>>

\* A faulty variant of the delivery below: a paint event is also delivered
\* while load runs (what a call of processEvents in its loop would allow).
PaintWhileLoading == pc \in {"exec", "load"}

\* Paint events are delivered by the event loop of app.exec (), line 912 (the
\* repaint () of eloop is part of eloop).
PaintDeliverable == pc = "exec"

\* paintEvent, lines 401-407, delivered by the event loop: upd reads the tables.
paintEvent ==
  /\ PaintDeliverable
  /\ seen' = [by |-> "event", tags |-> UpdTags, done |-> done]
  /\ UNCHANGED <<pc, out, argv, cnf, stack, now, lat_deg, long_deg, timezone_hr, my_timezone,
                 date_d, wtime_day, eng, solarmin, elev, elevc, azim, sunlong, li,
                 caller, cur, timer, ticks, run, done, writer, tab_date, ret, dstret,
                 acos_deg>>

\* ------------------------------------------------------------ the inputs

\* No file noaa_clock.cnf in the working directory.
CnfAbsent == [exists |-> FALSE, text |-> <<>>]

\* An empty file.
CnfEmpty == [exists |-> TRUE, text |-> <<>>]

\* One record, tagged EU.
CnfOslo ==
  [exists |-> TRUE,
   text |-> <<"O", "s", "l", "o", " ", "5", "9", ".", "9", " ", "1", "0", ".", "7", "5",
           " ", "1", " ", "E", "U", "\n">>]

\* A record tagged EU, then a record with no tag.
CnfOsloTokyo ==
  [exists |-> TRUE,
   text |-> <<"O", "s", "l", "o", " ", "5", "9", ".", "9", " ", "1", "0", ".", "7", "5",
           " ", "1", " ", "E", "U", "\n", "T", "o", "k", "y", "o", " ", "3", "5", ".",
           "6", " ", "1", "3", "9", ".", "7", " ", "9", "\n">>]

\* A record with no tag, then a record tagged EU.
CnfTokyoOslo ==
  [exists |-> TRUE,
   text |-> <<"T", "o", "k", "y", "o", " ", "3", "5", ".", "6", " ", "1", "3", "9", ".",
           "7", " ", "9", "\n", "O", "s", "l", "o", " ", "5", "9", ".", "9", " ", "1",
           "0", ".", "7", "5", " ", "1", " ", "E", "U", "\n">>]

\* A record, a blank line, a sentinel line and a record after it.
CnfSentinel ==
  [exists |-> TRUE,
   text |-> <<"T", "o", "k", "y", "o", " ", "3", "5", ".", "6", " ", "1", "3", "9", ".",
           "7", " ", "9", "\n", "\n", "*", " ", "m", "o", "r", "e", "\n", "O", "s",
           "l", "o", " ", "5", "9", ".", "9", " ", "1", "0", ".", "7", "5", " ", "1",
           " ", "E", "U", "\n">>]

\* One record whose line has no newline.
CnfUnterminated ==
  [exists |-> TRUE,
   text |-> <<"O", "s", "l", "o", " ", "5", "9", ".", "9", " ", "1", "0", ".", "7", "5",
           " ", "1", " ", "E", "U">>]

\* A record, then a line that names a location and gives no numbers.
CnfMalformed ==
  [exists |-> TRUE,
   text |-> <<"T", "o", "k", "y", "o", " ", "3", "5", ".", "6", " ", "1", "3", "9", ".",
           "7", " ", "9", "\n", "O", "s", "l", "o", " ", "n", "o", "r", "t", "h", "\n">>]

CnfFiles == {CnfAbsent, CnfEmpty, CnfOslo, CnfOsloTokyo, CnfTokyoOslo, CnfSentinel,
             CnfUnterminated, CnfMalformed}

NameUnknownplace == <<"u", "n", "k", "n", "o", "w", "n", "p", "l", "a", "c", "e">>
NameReykjavik == <<"R", "e", "y", "k", "j", "a", "v", "i", "k">>
NameTokyo == <<"t", "o", "k", "y", "o">>
NameOslo == <<"O", "S", "L", "O">>
NameHelsinki == <<"H", "e", "l", "s", "i", "n", "k", "i">>

Arg60 == <<"6", "0">>
Arg2483 == <<"2", "4", ".", "8", "3">>
Arg2 == <<"2">>
Arg3 == <<"3">>

\* The command lines: none, a name, a name and the observer's time zone,
\* coordinates, coordinates and the observer's time zone.
ArgvSet == {<<>>, <<NameUnknownplace>>, <<NameReykjavik>>, <<NameTokyo>>, <<NameOslo>>,
            <<NameHelsinki>>, <<NameOslo, Arg2>>, <<Arg60, Arg2483, Arg2>>,
            <<Arg60, Arg2483, Arg2, Arg3>>}

\* What an uninitialised char array may hold.
Garbage == {<<>>, EU}

StackSet == [rloc : Garbage, dststr : Garbage, loc : {<<>>}]

\* The moments the resolver is run at: a winter noon and a summer noon.
NowSet == {[d |-> QDate(2016, 1, 15), t |-> 43200], [d |-> QDate(2016, 7, 5), t |-> 43200]}

\* The state the program starts in: the globals zero (lines 66-122), the
\* command line a, the file f, the stack s, the clock n.
Start(a, f, s, n) ==
  /\ pc = "main" /\ argv = a /\ cnf = f /\ stack = s /\ now = n
  /\ lat_deg = 0 /\ long_deg = 0 /\ timezone_hr = 0 /\ my_timezone = 0
  /\ date_d = 0 /\ wtime_day = 0 /\ eng = ZeroEng
  /\ solarmin = ZeroTable /\ elev = ZeroTable /\ elevc = ZeroTable
  /\ azim = ZeroTable /\ sunlong = ZeroTable
  /\ li = 0 /\ caller = "none" /\ cur = ZeroCur /\ timer = FALSE /\ ticks = 0
  /\ run = 0 /\ done = 0 /\ writer = ZeroTable /\ tab_date = 0 /\ seen = NoRead
  /\ ret = 0 - 1 /\ out = NoOutput /\ dstret = 0 /\ acos_deg = [z |-> 0, a |-> 0]

\* ---------------------------------------------------------------- the clock

\* The launches followed: Reykjavik by name without a file, three seconds
\* before midnight of 2016-05-24, and coordinates of the time zone 2 given
\* by an observer of the time zone 3 at half past midnight (23:30 of the day
\* before at the location).
Launches ==
  {[argv |-> <<NameReykjavik>>, cnf |-> CnfAbsent,
    now |-> [d |-> QDate(2016, 5, 24), t |-> 86397]],
   [argv |-> <<Arg60, Arg2483, Arg2, Arg3>>, cnf |-> CnfOslo,
    now |-> [d |-> QDate(2016, 5, 24), t |-> 1800]]}

Init ==
  \E l \in Launches : Start(l.argv, l.cnf, [rloc |-> <<>>, dststr |-> <<>>, loc |-> <<>>], l.now)

Next ==
  \/ main
  \/ load
  \/ eloop
  \/ main_timer
  \/ timeout
  \/ paintEvent

Spec == Init /\ [][Next]_vars

\* ------------------------------------------------------- the DST rule alone

\* The years the rule is run in: from 2016 (the year of the source) through
\* 2026, so that the 31st of March falls on every day of the week.
FirstYear == 2016
DstYears == 11

\* timezone_hr and my_timezone when setdst_eu runs: equal; an EU zone seen
\* with my_timezone still 0 (the call of line 868); a zone behind the
\* observer's by 3.5 hours.
ZoneSet == {[tz |-> 2 * Q, mytz |-> 2 * Q], [tz |-> 2 * Q, mytz |-> 0],
            [tz |-> 0, mytz |-> Dec(35, 10)]}

InitDst ==
  \E y \in FirstYear..(FirstYear + DstYears - 1) :
    \E d \in QDate(y, 1, 1)..QDate(y, 12, 31) :
      \E h \in 0..23 : \E z \in ZoneSet :
        /\ pc = "dst" /\ now = [d |-> d, t |-> 3600 * h]
        /\ timezone_hr = z.tz /\ my_timezone = z.mytz
        /\ argv = <<>> /\ cnf = CnfAbsent
        /\ stack = [rloc |-> <<>>, dststr |-> <<>>, loc |-> <<>>]
        /\ lat_deg = 0 /\ long_deg = 0 /\ date_d = 0 /\ wtime_day = 0 /\ eng = ZeroEng
        /\ solarmin = <<>> /\ elev = <<>> /\ elevc = <<>> /\ azim = <<>> /\ sunlong = <<>>
        /\ li = 0 /\ caller = "none" /\ cur = ZeroCur /\ timer = FALSE /\ ticks = 0
        /\ run = 0 /\ done = 0 /\ writer = <<>> /\ tab_date = 0 /\ seen = NoRead
        /\ ret = 0 - 1 /\ out = NoOutput /\ dstret = 0 /\ acos_deg = [z |-> 0, a |-> 0]

\* A call of setdst_eu (lines 711, 722, ...) at the moment now.
dst_call ==
  /\ pc = "dst"
  /\ dstret' = setdst_eu(now.d, now.t, timezone_hr, my_timezone)
  /\ pc' = "dst_done"
  /\ UNCHANGED <<out, argv, cnf, stack, now, lat_deg, long_deg, timezone_hr, my_timezone,
                 date_d, wtime_day, eng, solarmin, elev, elevc, azim, sunlong, li,
                 caller, cur, timer, ticks, run, done, writer, tab_date, seen, ret,
                 acos_deg>>

NextDst == dst_call

SpecDst == InitDst /\ [][NextDst]_vars

\* ------------------------------------------------------ the resolver alone

InitResolve ==
  \E a \in ArgvSet : \E f \in CnfFiles : \E s \in StackSet : \E n \in NowSet :
    Start(a, f, s, n)

NextResolve == main

SpecResolve == InitResolve /\ [][NextResolve]_vars

\* ------------------------------------------------------- the engine alone

\* Reykjavik, 60 N and Sydney; Reykjavik, Helsinki and Sydney; UTC, +2, +10.
LatSet == {Dec(64135, 1000), 60 * Q, 0 - Dec(3387, 100)}
\* The longitude at which the dividend of line 457 is exactly 0 at the index
\* 0 of 2016-05-24 in the time zone 0: minus a quarter of the equation of
\* time of that minute (4 * long_deg cancels eqoftime_min).
LonSolarMidnight ==
  0 - (noaa_eq(60 * Q, 0, 0, daysTo(QDate(1900, 1, 1), QDate(2016, 5, 24)) + 2, 0).eqoftime_min
         \div 4)

LonSet == {0 - Dec(21895, 1000), Dec(2483, 100), Dec(15121, 100), LonSolarMidnight}
TzSet == {0, 2 * Q, 10 * Q}

\* date_d of the zero-initialised global, of 2016-05-24 and of 2016-12-21.
DateSet == {0, daysTo(QDate(1900, 1, 1), QDate(2016, 5, 24)) + 2,
            daysTo(QDate(1900, 1, 1), QDate(2016, 12, 21)) + 2}

\* The table indices evaluated.
IndexSet == {0, 1, 360, 720, 1080, 1439}

\* The results r2d (acos (..)) drawn: every AcosStep degrees of [0, 180], and
\* the values of the grid next to its ends and its middle.
AcosStep == 15
AcosSet == {k * AcosStep * Q : k \in 0..(180 \div AcosStep)}
           \cup {1, 90 * Q - 1, 90 * Q + 1, 180 * Q - 1}

\* The solar times (minutes) the hour angle of the drawn cases is folded from.
SolTimeSet == {0 - 360 * Q, 360 * Q, 720 * Q, 1080 * Q}
              \cup {1 - 1440 * Q, 0 - 720 * Q, 0 - 1, 0, 1, 1440 * Q - 1}

\* The globals of an engine check: the location, the date and the index.
EngineInputs(p, la, lo, z, dt, i, e, ac) ==
  /\ pc = p /\ lat_deg = la /\ long_deg = lo /\ timezone_hr = z /\ my_timezone = z
  /\ date_d = dt /\ li = i /\ eng = e /\ acos_deg = ac
  /\ argv = <<>> /\ cnf = CnfAbsent /\ now = [d |-> QDate(2016, 5, 24), t |-> 0]
  /\ stack = [rloc |-> <<>>, dststr |-> <<>>, loc |-> <<>>]
  /\ wtime_day = 0
  /\ solarmin = ZeroTable /\ elev = ZeroTable /\ elevc = ZeroTable
  /\ azim = ZeroTable /\ sunlong = ZeroTable
  /\ caller = "none" /\ cur = ZeroCur /\ timer = FALSE /\ ticks = 0
  /\ run = 0 /\ done = 0 /\ writer = ZeroTable /\ tab_date = 0 /\ seen = NoRead
  /\ ret = 0 - 1 /\ out = NoOutput /\ dstret = 0

InitEq ==
  \/ \E la \in LatSet : \E lo \in LonSet : \E z \in TzSet : \E dt \in DateSet :
       \E i \in IndexSet :
         EngineInputs("eq", la, lo, z, dt, i, ZeroEng, [z |-> 0, a |-> 0])
  \/ \E st \in SolTimeSet : \E zen \in AcosSet : \E az \in AcosSet :
       EngineInputs("az", 60 * Q, 0, 0, 0, 0,
                    [ZeroEng EXCEPT !.soltime_min = st, !.hrangle_deg = HrAngle(st)],
                    [z |-> zen, a |-> az])

\* One iteration of the loop of load, lines 509-515, at the index li.
eq_entry ==
  /\ pc = "eq"
  /\ LoadEntries(li, li)
  /\ pc' = "eq_done"
  /\ UNCHANGED <<out, argv, cnf, stack, now, lat_deg, long_deg, timezone_hr, my_timezone,
                 date_d, li, caller, cur, timer, ticks, run, done, seen, ret, dstret,
                 acos_deg>>

\* Lines 460-474 and 511-515 after the two acos of lines 459 and 472/474 have
\* returned the drawn results acos_deg.z and acos_deg.a.
az_entry ==
  /\ pc = "az"
  /\ StoreEntries(li, li,
                  <<noaa_eq_471(eng.truelong_deg, eng.decl_deg, eng.eqoftime_min,
                                eng.soltime_min, eng.hrangle_deg, acos_deg.z,
                                Elevation(acos_deg.z), acos_deg.a)>>)
  /\ pc' = "az_done"
  /\ UNCHANGED <<out, argv, cnf, stack, now, lat_deg, long_deg, timezone_hr, my_timezone,
                 date_d, wtime_day, li, caller, cur, timer, ticks, run, done, seen, ret,
                 dstret, acos_deg>>

NextEq ==
  \/ eq_entry
  \/ az_entry

SpecEq == InitEq /\ [][NextEq]_vars

\* ---------------------------------------------------- properties: DST rule

\* The date is in the month m of its year (m < 12).
InMonth(jd, m) == QDate(year(jd), m, 1) <= jd /\ jd < QDate(year(jd), m + 1, 1)

\* The last Sunday of the month m (of 31 days) of the year y, as a date.
LastSunday(y, m) == QDate(y, m, CHOOSE n \in 25..31 : dayOfWeek(QDate(y, m, n)) = 7)

\* The hour of the current time shifted by timezone_hr - my_timezone.
AdjustedHour == hour(addSecs(now.t, ShiftSecs(timezone_hr, my_timezone)))

\* C7: setdst_eu returns 0 or 1; 0 on every date of January and 1 on every
\* date of July, at every time of day; the backward search from the 31st of
\* March and of October stops on a Sunday dated 25..31.
C7_ZeroInJanuaryOneInJuly ==
  pc = "dst_done" =>
    /\ dstret \in {0, 1}
    /\ InMonth(now.d, 1) => dstret = 0
    /\ InMonth(now.d, 7) => dstret = 1
    /\ \A m \in {3, 10} :
         /\ SundaySearch(year(now.d), m, 31) \in 25..31
         /\ dayOfWeek(QDate(year(now.d), m, SundaySearch(year(now.d), m, 31))) = 7

\* A date of July, in a year whose search of March runs its full seven steps
\* down to the 25th, has been given the offset 1.
C7_JulyAfterLongestSearch ==
  /\ pc = "dst_done"
  /\ InMonth(now.d, 7)
  /\ SundaySearch(year(now.d), 3, 31) = 25
  /\ dstret = 1

\* The rule of the transition days with the threshold hour th.
DstRuleWith(th) ==
  pc = "dst_done" =>
    /\ now.d = LastSunday(year(now.d), 3) => (dstret = 1 <=> AdjustedHour > th)
    /\ now.d = LastSunday(year(now.d), 10) => (dstret = 0 <=> AdjustedHour > th)
    /\ (LastSunday(year(now.d), 3) < now.d /\ now.d < LastSunday(year(now.d), 10))
         => dstret = 1
    /\ (now.d < LastSunday(year(now.d), 3) \/ now.d > LastSunday(year(now.d), 10))
         => dstret = 0

\* C8 as the source has it: on the last Sunday of March the offset is 1
\* exactly when the adjusted local hour is > 3, on the last Sunday of October
\* it is 0 exactly when that hour is > 3; strictly between the two Sundays it
\* is 1, before the first and after the second it is 0.
C8_ThresholdThree == DstRuleWith(3)

\* C8 as stated, with the threshold hour 1.
C8_ThresholdOne == DstRuleWith(1)

\* The last Sunday of March at the adjusted hour 2: past 1 and not past 3.
C8_MarchSundayAtTwo ==
  /\ pc = "dst_done"
  /\ now.d = LastSunday(year(now.d), 3)
  /\ AdjustedHour = 2
  /\ dstret = 0

\* ---------------------------------------------------- properties: resolver

\* The lines of a text: its runs of characters ended by a newline.
RECURSIVE FileLines(_)
FileLines(text) ==
  IF ~strchr(text, "\n") THEN <<>>
  ELSE LET n == CHOOSE k \in 1..Len(text) :
                  text[k] = "\n" /\ \A h \in 1..(k - 1) : text[h] # "\n"
       IN <<SubSeq(text, 1, n)>> \o FileLines(Drop(text, n))

BlankRecord == [n |-> 0, rloc |-> <<>>, la |-> 0, lo |-> 0, tz |-> 0, dststr |-> <<>>]

\* The records of a sequence of lines, each line read by itself: blank lines
\* skipped, the list ended by the first line that holds a '*'.
RECURSIVE Records(_)
Records(ls) ==
  IF ls = <<>> \/ strchr(ls[1], "*") THEN <<>>
  ELSE IF SkipSpace(ls[1]) = <<>> THEN Records(Tail(ls))
  ELSE <<sscanf5(ls[1], BlankRecord)>> \o Records(Tail(ls))

\* The record list of the run: empty when there is no file.
RecordList == IF cnf.exists THEN Records(FileLines(cnf.text)) ELSE <<>>

\* The run names its location (argc 2 or 3), and the name given.
ByName == Len(argv) \in {1, 2}
ArgName == FirstWord(argv[1], <<>>)

\* The index in the record list of the first record named ArgName, 0 for none.
MatchIndex ==
  IF \E k \in 1..Len(RecordList) : strcmpi0(RecordList[k].rloc, ArgName)
  THEN CHOOSE k \in 1..Len(RecordList) :
         /\ strcmpi0(RecordList[k].rloc, ArgName)
         /\ \A h \in 1..(k - 1) : ~strcmpi0(RecordList[h].rloc, ArgName)
  ELSE 0

\* The observer's time zone my_timezone when setcoord is called.
CallTimezone == IF Len(argv) = 2 THEN ArgDouble(argv[2], 0) ELSE 0

\* C1: a name that is neither in the record list nor in the built-in table is
\* not resolved (setcoord returns false and main returns 1), whether the
\* file is absent, empty or holds only other names.
C1_UnknownNameFails ==
  (pc # "main" /\ ByName /\ MatchIndex = 0 /\ BuiltInIndex(ArgName) = 0)
    => (pc = "exit" /\ ret = 1)

\* C2: a name of the built-in table that no record of the file matches (or
\* with no file) resolves to the built-in latitude, longitude and time zone,
\* the DST offset added only for the entries with the EU rule.
C2_BuiltInFallback ==
  (pc # "main" /\ ByName /\ MatchIndex = 0 /\ BuiltInIndex(ArgName) # 0)
    => /\ pc = "load"
       /\ lat_deg = BuiltIn[BuiltInIndex(ArgName)].la
       /\ long_deg = BuiltIn[BuiltInIndex(ArgName)].lo
       /\ timezone_hr = BuiltIn[BuiltInIndex(ArgName)].tz
            + (IF BuiltIn[BuiltInIndex(ArgName)].eu
               THEN setdst_eu(now.d, now.t, BuiltIn[BuiltInIndex(ArgName)].tz,
                              CallTimezone) * Q
               ELSE 0)

\* C3: for a name matched in the record list, the time zone is that of the
\* matched line, plus the DST offset if and only if that line carries the tag
\* EU; a matched line with no tag gives its time zone unchanged, whatever the
\* lines before it carried.
C3_TagOfMatchedLine ==
  (pc # "main" /\ ByName /\ MatchIndex # 0)
    => timezone_hr = RecordList[MatchIndex].tz
         + (IF strcmpi0(RecordList[MatchIndex].dststr, EU)
            THEN setdst_eu(now.d, now.t, RecordList[MatchIndex].tz, CallTimezone) * Q
            ELSE 0)

\* ------------------------------------------------------ properties: engine

\* C5: the true solar time noaa_eq computes, and load stores, is in [0, 1440).
C5_SolarTimeRange ==
  pc = "eq_done" =>
    /\ 0 <= eng.soltime_min /\ eng.soltime_min < 1440 * Q
    /\ 0 <= solarmin[li + 1] /\ solarmin[li + 1] < 1440 * Q

\* C6: a stored azimuth is in [0, 360) and a stored elevation in [-90, 90],
\* when neither is a NaN, for both branches of the azimuth and every result
\* of the acos in [0, 180].
C6_AzimuthElevationRange ==
  (pc \in {"eq_done", "az_done"} /\ azim[li + 1] # NaN /\ elev[li + 1] # NaN)
    => /\ 0 <= azim[li + 1] /\ azim[li + 1] < 360 * Q
       /\ 0 - 90 * Q <= elev[li + 1] /\ elev[li + 1] <= 90 * Q

\* ------------------------------------------------------- properties: clock

\* The day number of the current date, as eloop computes date_d (line 565).
Today == daysTo(QDate(1900, 1, 1), now.d) + 2

\* C4: the table a call of eloop samples and repaints was built by load with
\* the day number of the current date of that call.
C4_TableOfToday ==
  (pc \in {"timer", "exec"} /\ seen.by # "none") => tab_date = Today

\* The five fields of the entry i are the conversions to float of the
\* results r of one evaluation.
EntryIs(i, r) ==
  /\ solarmin[i + 1] = ToFloat(r.soltime_min)
  /\ elev[i + 1] = ToFloat(r.elev_deg)
  /\ elevc[i + 1] = ToFloat(r.elevc_deg)
  /\ azim[i + 1] = ToFloat(r.az_deg)
  /\ sunlong[i + 1] = ToFloat(r.truelong_deg)

\* C9: when load has returned, each of the five tables has 1440 entries, and
\* for every i the five fields at i are the results of the one evaluation
\* of noaa_eq with the day fraction i / 1440.
C9_EntriesOfOwnMinute ==
  (pc = "load" /\ li = TabLen) =>
    /\ \A tab \in {solarmin, elev, elevc, azim, sunlong} : Len(tab) = 1440
    /\ \A i \in 0..1439 :
         EntryIs(i, noaa_eq(lat_deg, long_deg, timezone_hr, date_d, i))

\* The load of a timeout has returned: the third run of the launch.
C9_TimerLoadReturned == pc = "load" /\ li = TabLen /\ caller = "timer" /\ run = 3

\* C10: whenever upd or the lookup of the current sample has read the table,
\* every entry read was written by one and the same run of load, and that
\* run had returned.
C10_ReadersSeeOneCompleteRun ==
  seen.by # "none" => (seen.tags = {seen.done} /\ seen.done >= 1)

\* A paint event delivered by the event loop after the load of a timeout.
C10_PaintAfterTimerLoad == seen.by = "event" /\ ticks = 1 /\ seen.tags = {3}

\* --------------------------------------------- properties: unknown location

\* The names main has listed include the name a.
Listed(a) == \E j \in 1..Len(out.locs) : out.locs[j] = a

\* C11: when the name given cannot be resolved, main prints the message of
\* the unknown location, the usage text and the list of the known names,
\* those of the record list and those of the built-in table, and returns a
\* non-zero status, with or without the file.
C11_UnknownNameReported ==
  (out.said # <<>> /\ out.said[1] = "unknown") =>
    /\ pc = "exit" /\ ret = 1
    /\ out.said = <<"unknown", "usage", "known", "end">>
    /\ \A k \in 1..Len(BuiltIn) : \E h \in 1..Len(BuiltIn[k].names) : Listed(BuiltIn[k].names[h])
    /\ \A k \in 1..Len(RecordList) : Listed(RecordList[k].rloc)

\* ------------------------------------------- properties: the lines of the file

\* A record read from a line that gave a name and the three numbers.
WellFormed(r) == r.n >= 4

\* The values main has resolved are those of the record r, its time zone
\* with or without the hour of the DST rule.
ResolvedFrom(r) ==
  /\ lat_deg = r.la /\ long_deg = r.lo
  /\ timezone_hr \in {r.tz, r.tz + Q}

\* C12: a line that does not give a name, a latitude, a longitude and a time
\* zone is skipped without effect: when the first line naming the location
\* is such a line and the name is resolved all the same, the three values
\* returned are those of one well-formed line naming the location, never
\* those an earlier line or the caller left.
C12_MalformedLineSkipped ==
  (pc = "load" /\ ByName /\ MatchIndex # 0 /\ ~WellFormed(RecordList[MatchIndex])) =>
    \E k \in 1..Len(RecordList) :
      /\ WellFormed(RecordList[k])
      /\ strcmpi0(RecordList[k].rloc, ArgName)
      /\ ResolvedFrom(RecordList[k])

\* Every line of a text, the last one with or without its newline.
RECURSIVE AllLines(_)
AllLines(text) ==
  IF text = <<>> THEN <<>>
  ELSE IF ~strchr(text, "\n") THEN <<text>>
  ELSE <<FileLines(text)[1]>> \o AllLines(Drop(text, Len(FileLines(text)[1])))

\* The records of every non-blank line before the first line with a '*', or
\* up to the end of the file.
EveryRecord == IF cnf.exists THEN Records(AllLines(cnf.text)) ELSE <<>>

\* The index in EveryRecord of the first record named ArgName, 0 for none.
FirstNamed ==
  IF \E k \in 1..Len(EveryRecord) : strcmpi0(EveryRecord[k].rloc, ArgName)
  THEN CHOOSE k \in 1..Len(EveryRecord) :
         /\ strcmpi0(EveryRecord[k].rloc, ArgName)
         /\ \A h \in 1..(k - 1) : ~strcmpi0(EveryRecord[h].rloc, ArgName)
  ELSE 0

\* C13: a name is resolved to the record of the first line, in file order,
\* whose first field is the name without regard to case, among the non-blank
\* lines before the first line holding a '*', or up to the end of the file
\* when no line holds one.
C13_FirstLineNamed ==
  (pc # "main" /\ ByName /\ FirstNamed # 0 /\ WellFormed(EveryRecord[FirstNamed])) =>
    (pc = "load" /\ ResolvedFrom(EveryRecord[FirstNamed]))

\* ------------------------------------------------ properties: the hour angle

\* The acos both branches of the azimuth share, as the engine check at hand
\* has it: the one drawn, or the one of the results of noaa_eq.
SharedAcos ==
  IF pc = "az_done" THEN acos_deg.a ELSE AzAcos(lat_deg, eng.decl_deg, eng.zangle_deg)

\* The hour angle is the solar time over 4 plus 180 when that is negative
\* and minus 180 when it is not; it is at least lowest and at most 180; and
\* the azimuth is the acos plus 180 exactly when the hour angle is > 0, and
\* 540 minus the acos otherwise (both modulo 360).
HourAngleRule(lowest, a) ==
  /\ eng.hrangle_deg = eng.soltime_min \div 4
                          + (IF eng.soltime_min \div 4 < 0 THEN 180 * Q ELSE 0 - 180 * Q)
  /\ lowest <= eng.hrangle_deg /\ eng.hrangle_deg <= 180 * Q
  /\ a # NaN =>
       eng.az_deg = IF eng.hrangle_deg > 0 THEN (a + 180 * Q) % (360 * Q)
                    ELSE (540 * Q - a) % (360 * Q)

\* C14 as the source has it: the folded hour angle is in the closed interval
\* [-180, 180], -180 being that of the solar time 0, and the azimuth takes
\* the branch "acos + 180" exactly when the hour angle is > 0.
C14_HourAngleClosedRange ==
  pc \in {"eq_done", "az_done"} => HourAngleRule(0 - 180 * Q, SharedAcos)

\* C14 as stated: the folded hour angle is above -180.
C14_HourAngleAboveMinus180 ==
  pc \in {"eq_done", "az_done"} => HourAngleRule(1 - 180 * Q, SharedAcos)

\* noaa_eq has computed a negative solar time, folded to an hour angle > 0,
\* and the azimuth of the branch "acos + 180".
C14_NegativeSolarTimeFolded ==
  /\ pc = "eq_done" /\ eng.soltime_min < 0 /\ eng.hrangle_deg > 0
  /\ eng.az_deg # NaN /\ eng.az_deg = (SharedAcos + 180 * Q) % (360 * Q)

\* ------------------------------------------- properties: the moment shown

\* The observer's clock shifted to the location, in seconds from the
\* observer's midnight; the day number and the minute of the day it falls on
\* at the location.
LocationSecs == now.t + ShiftSecs(timezone_hr, my_timezone)
LocationDay == Today + (LocationSecs \div 86400)
LocationMinute == (LocationSecs % 86400) \div 60

\* C15: when eloop has returned, the date it has set for the table (date_d)
\* and the minute of the day it has picked the current sample at
\* (wtime_day) are those of one moment of the location: the date is the
\* location's, also when the shift by timezone_hr - my_timezone crosses
\* midnight.
C15_DateAndMinuteOfLocation ==
  (pc \in {"timer", "exec"} /\ seen.by # "none") =>
    (date_d = LocationDay /\ wtime_day = LocationMinute)

====
